---- MODULE Spec2Model ----
(***************************************************************************)
(* DirectoryX (src/main.py): the directory scanner, its selection policy,  *)
(* the tree builder and renderer, the Python comment stripper, the         *)
(* whitespace normalisation and the memoised file hash.                    *)
(*                                                                         *)
(* Python strings are sequences of one-character strings, so that          *)
(* basename, splitext, lower, split, strip, find, count and the string     *)
(* order used by sorted() are computed as Python computes them.            *)
(***************************************************************************)
EXTENDS Integers, Sequences, FiniteSets, TLC

VARIABLES
    pc,                   \* position of the running procedure
    disk,                 \* the filesystem the program runs against
    args,                 \* argparse's namespace in main
    excluded_dirs,        \* DirectoryScanner.excluded_dirs
    excluded_files,       \* DirectoryScanner.excluded_files
    excluded_extensions,  \* DirectoryScanner.excluded_extensions
    force_include_files,  \* DirectoryScanner.force_include_files
    directories,          \* DirectoryScanner.directories
    files,                \* DirectoryScanner.files (FileInfo records)
    walk,                 \* os.walk's pending directories, next first
    md_lines,             \* the tree lines written to the tree document
    yaml_files,           \* the 'files' sequence of the metadata document
    content_sections,     \* the section headings of the content document
    file_path,            \* should_exclude_file's argument
    verdict,              \* should_exclude_file's return value
    source_code,          \* the comment stripper's argument
    lines,                \* source_code.splitlines()
    idx,                  \* the loop index i
    result_lines,         \* result_lines
    in_triple_quotes,     \* in_triple_quotes
    triple_quote_type,    \* triple_quote_type
    stripped,             \* the texts returned so far, one per pass
    content,              \* the text handed to the whitespace normalisation
    normalized,           \* its results, one per application
    file_info,            \* one FileInfo under repeated calls
    file_state,           \* that file on disk: content and readability
    reads,                \* how many times its file was opened
    returned              \* each call made: its name, its result, the file on disk then

scannerCfg == <<excluded_dirs, excluded_files, excluded_extensions, force_include_files>>
pipeVars   == <<disk, args, directories, files, walk, md_lines, yaml_files, content_sections>>
polVars    == <<file_path, verdict>>
stripVars  == <<source_code, lines, idx, result_lines, in_triple_quotes, triple_quote_type, stripped>>
normVars   == <<content, normalized>>
hashVars   == <<file_info, file_state, reads, returned>>
vars == <<pc, scannerCfg, pipeVars, polVars, stripVars, normVars, hashVars>>

None == "None"

(***************************************************************************)
(* Python str operations                                                   *)
(***************************************************************************)
\* chr(32)..chr(126); the grave accent, which a TLA+ string cannot hold, is spelled out
Ascii ==
    <<" ", "!", "\"", "#", "$", "%", "&", "'", "(", ")", "*", "+", ",", "-", ".", "/", "0", "1", "2", "3", "4", "5", "6", "7", "8", "9", ":", ";", "<", "=", ">", "?", "@", "A", "B", "C", "D", "E", "F", "G", "H", "I", "J", "K", "L", "M", "N", "O", "P", "Q", "R", "S", "T", "U", "V", "W", "X", "Y", "Z", "[", "\\", "]", "^", "_", "GRAVE", "a", "b", "c", "d", "e", "f", "g", "h", "i", "j", "k", "l", "m", "n", "o", "p", "q", "r", "s", "t", "u", "v", "w", "x", "y", "z", "{", "|", "}", "~">>

NL == "\n"

OrdOf ==
    [c \in {Ascii[i] : i \in 1..Len(Ascii)} \cup {NL} |->
        IF c = NL THEN 10 ELSE 31 + (CHOOSE i \in 1..Len(Ascii) : Ascii[i] = c)]

Ord(c) == OrdOf[c]

LowerChar(c) == IF Ord(c) >= 65 /\ Ord(c) <= 90 THEN Ascii[Ord(c) + 32 - 31] ELSE c

Lower(s) == [i \in 1..Len(s) |-> LowerChar(s[i])]

\* a < b for Python str: code-point lexicographic
RECURSIVE StrLess(_, _)
StrLess(a, b) ==
    IF b = <<>> THEN FALSE
    ELSE IF a = <<>> THEN TRUE
    ELSE IF Head(a) = Head(b) THEN StrLess(Tail(a), Tail(b))
    ELSE Ord(Head(a)) < Ord(Head(b))

StartsWith(s, p) == Len(p) <= Len(s) /\ SubSeq(s, 1, Len(p)) = p

EndsWith(s, p) == Len(p) <= Len(s) /\ SubSeq(s, Len(s) - Len(p) + 1, Len(s)) = p

\* s.find(p): the 0-based index of the first occurrence, -1 when absent
Find(s, p) ==
    LET hits == {i \in 1..(Len(s) - Len(p) + 1) : SubSeq(s, i, i + Len(p) - 1) = p}
    IN  IF hits = {} THEN -1 ELSE (CHOOSE i \in hits : \A j \in hits : i <= j) - 1

Contains(s, p) == Find(s, p) # -1

\* s.rfind(c), 0-based
RFind(s, c) ==
    LET hits == {i \in 1..Len(s) : s[i] = c}
    IN  IF hits = {} THEN -1 ELSE (CHOOSE i \in hits : \A j \in hits : i >= j) - 1

\* s.count(p): non-overlapping occurrences, scanned from the left
RECURSIVE Count(_, _)
Count(s, p) ==
    LET k == Find(s, p)
    IN  IF k = -1 THEN 0 ELSE 1 + Count(SubSeq(s, k + Len(p) + 1, Len(s)), p)

IsSpace(c) == c \in {" ", NL}

RECURSIVE LStrip(_)
LStrip(s) == IF s # <<>> /\ IsSpace(Head(s)) THEN LStrip(Tail(s)) ELSE s

RECURSIVE RStrip(_)
RStrip(s) ==
    IF s # <<>> /\ IsSpace(s[Len(s)]) THEN RStrip(SubSeq(s, 1, Len(s) - 1)) ELSE s

Strip(s) == LStrip(RStrip(s))

\* s.split(sep) for a one-character sep
RECURSIVE Split(_, _)
Split(s, sep) ==
    LET k == Find(s, <<sep>>)
    IN  IF k = -1 THEN <<s>>
        ELSE <<SubSeq(s, 1, k)>> \o Split(SubSeq(s, k + 2, Len(s)), sep)

\* sep.join(parts)
RECURSIVE Join(_, _)
Join(parts, sep) ==
    IF parts = <<>> THEN <<>>
    ELSE IF Len(parts) = 1 THEN parts[1]
    ELSE parts[1] \o <<sep>> \o Join(Tail(parts), sep)

\* str.splitlines(): lines end at "\n"; a final "\n" opens no further line
RECURSIVE SplitLines(_)
SplitLines(s) ==
    IF s = <<>> THEN <<>>
    ELSE LET k == Find(s, <<NL>>)
         IN  IF k = -1 THEN <<s>>
             ELSE <<SubSeq(s, 1, k)>> \o SplitLines(SubSeq(s, k + 2, Len(s)))

InList(x, l) == \E i \in 1..Len(l) : l[i] = x

\* sorted(): a stable insertion sort of <<key, item>> pairs by the keys' str order
RECURSIVE InsertSorted(_, _)
InsertSorted(x, l) ==
    IF l = <<>> THEN <<x>>
    ELSE IF StrLess(x[1], Head(l)[1]) THEN <<x>> \o l
    ELSE <<Head(l)>> \o InsertSorted(x, Tail(l))

RECURSIVE SortPairs(_)
SortPairs(l) ==
    IF l = <<>> THEN <<>>
    ELSE InsertSorted(l[Len(l)], SortPairs(SubSeq(l, 1, Len(l) - 1)))

\* sorted(l) for a list of str
SortedStrs(l) ==
    LET s == SortPairs([i \in 1..Len(l) |-> <<l[i], l[i]>>])
    IN  [i \in 1..Len(l) |-> s[i][2]]

\* sorted(l, key=lambda x: x.relative_path)
SortedByRelPath(l) ==
    LET s == SortPairs([i \in 1..Len(l) |-> <<l[i].relative_path, l[i]>>])
    IN  [i \in 1..Len(l) |-> s[i][2]]

(***************************************************************************)
(* os.path                                                                 *)
(***************************************************************************)
SEP == "/"

\* os.path.basename
BaseName(p) == SubSeq(p, RFind(p, SEP) + 2, Len(p))

\* os.path.splitext(p)[1]: from the last dot, unless only dots precede it
SplitExt(p) ==
    LET sepIndex == RFind(p, SEP)
        dotIndex == RFind(p, ".")
    IN  IF dotIndex > sepIndex
             /\ \E k \in (sepIndex + 1)..(dotIndex - 1) : p[k + 1] # "."
        THEN SubSeq(p, dotIndex + 1, Len(p))
        ELSE <<>>

\* os.path.join(a, b) for a relative b
PathJoin(a, b) == a \o <<SEP>> \o b

\* os.path.relpath(p, start) for p at or below start
RelPath(p, start) ==
    IF p = start THEN <<".">> ELSE SubSeq(p, Len(start) + 2, Len(p))

(***************************************************************************)
(* DirectoryScanner: the predefined lists and the selection policy         *)
(***************************************************************************)
DefaultExcludedDirs ==
    << <<"_", "_", "p", "y", "c", "a", "c", "h", "e", "_", "_">>,
       <<".", "g", "i", "t">>,
       <<".", "i", "d", "e", "a">>,
       <<"v", "e", "n", "v">>,
       <<"n", "o", "d", "e", "_", "m", "o", "d", "u", "l", "e", "s">>,
       <<".", "v", "s", "c", "o", "d", "e">>,
       <<".", "s", "v", "e", "l", "t", "e", "-", "k", "i", "t">>,
       <<"b", "u", "i", "l", "d">>,
       <<"d", "i", "s", "t">>,
       <<".", "v", "e", "r", "c", "e", "l">>,
       <<".", "n", "e", "t", "l", "i", "f", "y">> >>

DefaultExcludedFiles ==
    << <<".", "d", "o", "c", "k", "e", "r", "i", "g", "n", "o", "r", "e">>,
       <<".", "D", "S", "_", "S", "t", "o", "r", "e">>,
       <<"T", "h", "u", "m", "b", "s", ".", "d", "b">>,
       <<".", "g", "i", "t", "i", "g", "n", "o", "r", "e">>,
       <<".", "g", "i", "t", "a", "t", "t", "r", "i", "b", "u", "t", "e", "s">>,
       <<"p", "a", "c", "k", "a", "g", "e", "-", "l", "o", "c", "k", ".", "j", "s", "o", "n">> >>

DefaultExcludedExtensions ==
    << <<".", "p", "y", "c">>,
       <<".", "p", "y", "o">>,
       <<".", "p", "y", "d">>,
       <<".", "s", "o">>,
       <<".", "d", "l", "l">>,
       <<".", "e", "x", "e">>,
       <<".", "o", "b", "j">>,
       <<".", "o">>,
       <<".", "a">>,
       <<".", "l", "i", "b">>,
       <<".", "s", "w", "p">>,
       <<".", "c", "l", "a", "s", "s">>,
       <<".", "t", "x", "t">> >>

DefaultForceIncludeFiles ==
    << <<"M", "a", "k", "e", "f", "i", "l", "e">>,
       <<"D", "o", "c", "k", "e", "r", "f", "i", "l", "e", ".", "a", "n", "v", "i", "l">>,
       <<"D", "o", "c", "k", "e", "r", "f", "i", "l", "e", ".", "f", "u", "n", "d", "e", "r">>,
       <<"D", "o", "c", "k", "e", "r", "f", "i", "l", "e">>,
       <<"d", "o", "c", "k", "e", "r", "-", "c", "o", "m", "p", "o", "s", "e", ".", "y", "m", "l">>,
       <<"d", "o", "c", "k", "e", "r", "-", "c", "o", "m", "p", "o", "s", "e", ".", "y", "a", "m", "l">>,
       <<"r", "e", "q", "u", "i", "r", "e", "m", "e", "n", "t", "s", ".", "t", "x", "t">>,
       <<"p", "a", "c", "k", "a", "g", "e", ".", "j", "s", "o", "n">> >>

should_exclude_file_case_sensitive(path) ==
    LET file_name == BaseName(path)
        file_ext  == SplitExt(file_name)
    IN  IF InList(file_name, force_include_files) THEN FALSE
        ELSE IF InList(file_name, excluded_files) THEN TRUE
        ELSE IF InList(file_ext, excluded_extensions) THEN TRUE
        ELSE FALSE

should_exclude_file_names_first(path) ==
    LET file_name == BaseName(path)
        file_ext  == Lower(SplitExt(file_name))
    IN  IF InList(file_name, excluded_files) THEN TRUE
        ELSE IF InList(file_ext, excluded_extensions) THEN TRUE
        ELSE FALSE

\* lines 133-150
should_exclude_file(path) ==
    LET file_name == BaseName(path)
        file_ext  == Lower(SplitExt(file_name))
    IN  IF InList(file_name, force_include_files) THEN FALSE
        ELSE IF InList(file_name, excluded_files) THEN TRUE
        ELSE IF InList(file_ext, excluded_extensions) THEN TRUE
        ELSE FALSE

should_exclude_dir(d) == InList(d, excluded_dirs)

text_extensions ==
    { <<".", "t", "x", "t">>,
      <<".", "m", "d">>,
      <<".", "p", "y">>,
      <<".", "j", "s">>,
      <<".", "j", "a", "v", "a">>,
      <<".", "c">>,
      <<".", "c", "p", "p">>,
      <<".", "h">>,
      <<".", "h", "p", "p">>,
      <<".", "c", "s">>,
      <<".", "p", "h", "p">>,
      <<".", "h", "t", "m", "l">>,
      <<".", "c", "s", "s">>,
      <<".", "x", "m", "l">>,
      <<".", "j", "s", "o", "n">>,
      <<".", "y", "a", "m", "l">>,
      <<".", "y", "m", "l">>,
      <<".", "i", "n", "i">>,
      <<".", "c", "o", "n", "f">>,
      <<".", "s", "h">>,
      <<".", "b", "a", "t">>,
      <<".", "p", "s", "1">>,
      <<".", "s", "q", "l">>,
      <<".", "g", "o">>,
      <<".", "r", "b">>,
      <<".", "r", "s">>,
      <<".", "d", "a", "r", "t">>,
      <<".", "s", "w", "i", "f", "t">>,
      <<".", "k", "t">>,
      <<".", "t", "s">>,
      <<".", "r">>,
      <<".", "p", "l">>,
      <<".", "l", "u", "a">>,
      <<".", "s", "v", "e", "l", "t", "e">>,
      <<".", "m", "j", "s">>,
      <<".", "d", ".", "t", "s">>,
      <<".", "p", "o", "s", "t", "c", "s", "s">>,
      <<".", "s", "o", "l">>,
      <<>>,
      <<".", "M", "a", "k", "e", "f", "i", "l", "e">> }

(***************************************************************************)
(* ReportGenerator.remove_python_comments_and_docstrings                   *)
(***************************************************************************)
DQ3 == <<"\"", "\"", "\"">>

SQ3 == <<"'", "'", "'">>

DefKw == <<"d", "e", "f", " ">>

ClassKw == <<"c", "l", "a", "s", "s", " ">>

\* lines 383-385, 392-394: cut the line at the first '#'
CutComment(line) ==
    LET comment_pos == Find(line, <<"#">>)
    IN  IF comment_pos # -1 THEN SubSeq(line, 1, comment_pos) ELSE line

\* line 369: the test made on the previous source line
OpensBlock(prev_line) ==
    \/ StartsWith(prev_line, DefKw)
    \/ StartsWith(prev_line, ClassKw)
    \/ EndsWith(prev_line, <<":">>)

\* lines 359-362
QuoteTypeOf(stripped_line) == IF Contains(stripped_line, DQ3) THEN DQ3 ELSE SQ3

\* lines 365-369: the line is taken as the opening of a docstring
IsDocstringStart(i, stripped_line) ==
    /\ StartsWith(stripped_line, QuoteTypeOf(stripped_line))
    /\ i > 0
    /\ OpensBlock(Strip(lines[i]))

\* lines 377-379: a docstring that opens and closes on the line
IsOneLineDocstring(stripped_line) ==
    LET quote_type == QuoteTypeOf(stripped_line)
    IN  /\ Count(stripped_line, quote_type) = 2
        /\ StartsWith(stripped_line, quote_type)
        /\ EndsWith(stripped_line, quote_type)
        /\ Len(stripped_line) > 6

\* lines 330-339: the call binds the argument and sets the loop's state
StripEnter ==
    /\ pc = "strip_call"
    /\ lines' = SplitLines(source_code)
    /\ idx' = 0
    /\ result_lines' = <<>>
    /\ in_triple_quotes' = FALSE
    /\ triple_quote_type' = None
    /\ pc' = "strip_loop"
    /\ UNCHANGED <<source_code, stripped>>

\* lines 341-406: one iteration of the loop, on lines[i] (skip_next_line is never set)
StripLine ==
    /\ pc = "strip_loop"
    /\ idx < Len(lines)
    /\ LET i == idx
           line == lines[i + 1]
           stripped_line == Strip(line)
       IN  IF ~in_triple_quotes
           THEN IF StartsWith(stripped_line, <<"#">>)
                THEN UNCHANGED <<result_lines, in_triple_quotes, triple_quote_type>>
                ELSE IF Contains(stripped_line, DQ3) \/ Contains(stripped_line, SQ3)
                THEN IF IsDocstringStart(i, stripped_line)
                     THEN /\ in_triple_quotes' = TRUE
                          /\ triple_quote_type' = QuoteTypeOf(stripped_line)
                          /\ UNCHANGED result_lines
                     ELSE IF IsOneLineDocstring(stripped_line)
                     THEN UNCHANGED <<result_lines, in_triple_quotes, triple_quote_type>>
                     ELSE /\ result_lines' = Append(result_lines, RStrip(CutComment(line)))
                          /\ UNCHANGED <<in_triple_quotes, triple_quote_type>>
                ELSE /\ result_lines' = Append(result_lines, RStrip(CutComment(line)))
                     /\ UNCHANGED <<in_triple_quotes, triple_quote_type>>
           ELSE /\ IF Contains(line, triple_quote_type)
                   THEN in_triple_quotes' = FALSE /\ triple_quote_type' = None
                   ELSE UNCHANGED <<in_triple_quotes, triple_quote_type>>
                /\ UNCHANGED result_lines
    /\ idx' = idx + 1
    /\ UNCHANGED <<pc, source_code, lines, stripped>>

\* line 409: the result; the caller then strips the text it got once more
StripReturn ==
    /\ pc = "strip_loop"
    /\ idx = Len(lines)
    /\ LET result == Join(result_lines, NL)
       IN  /\ stripped' = Append(stripped, result)
           /\ IF stripped = <<>>
              THEN pc' = "strip_call" /\ source_code' = result
              ELSE pc' = "strip_done" /\ UNCHANGED source_code
    /\ UNCHANGED <<lines, idx, result_lines, in_triple_quotes, triple_quote_type>>

\* the source lines the stripped texts are made of
LinePool ==
    { <<>>,
      <<"#", " ", "c">>,
      <<"x", " ", "#", " ", "c">>,
      <<"d", "e", "f", " ", "f", "(", ")", ":">>,
      <<"i", "f", " ", "x", ":">>,
      <<" ", " ", "\"", "\"", "\"", "d", "\"", "\"", "\"">>,
      <<"\"", "\"", "\"">>,
      <<"'", "'", "'">>,
      <<"d">>,
      <<"\"", "\"", "\"", "d", "\"", "\"", "\"", " ", "#", " ", "c">>,
      <<"x", " ", "=", " ", "\"", "\"", "\"">>,
      <<"\"", "\"", "\"", "\"", "\"", "\"">>,
      <<"'", "'", "'", "d", "'", "'", "'">> }

MaxLines == 3

RECURSIVE LineSeqs(_)
LineSeqs(n) ==
    IF n = 0 THEN {<<>>}
    ELSE LET shorter == LineSeqs(n - 1)
         IN  shorter \cup {Append(t, l) : t \in {u \in shorter : Len(u) = n - 1}, l \in LinePool}

SourceTexts == {Join(t, NL) : t \in LineSeqs(MaxLines)}

StripIdle ==
    /\ source_code = <<>>
    /\ lines = <<>>
    /\ idx = 0
    /\ result_lines = <<>>
    /\ in_triple_quotes = FALSE
    /\ triple_quote_type = None
    /\ stripped = <<>>

(***************************************************************************)
(* generate_content_report: the whitespace normalisation, lines 415-416    *)
(* and 480-481                                                             *)
(***************************************************************************)
\* the length of the run of character c that s starts with
RECURSIVE RunLen(_, _)
RunLen(s, c) == IF s # <<>> /\ Head(s) = c THEN 1 + RunLen(Tail(s), c) ELSE 0

\* re.compile(c{n,}).sub(repl, s): every maximal run of n or more c becomes repl
RECURSIVE SubRuns(_, _, _, _)
SubRuns(s, c, n, repl) ==
    IF s = <<>> THEN <<>>
    ELSE LET k == RunLen(s, c)
         IN  IF k >= n THEN repl \o SubRuns(SubSeq(s, k + 1, Len(s)), c, n, repl)
             ELSE <<Head(s)>> \o SubRuns(Tail(s), c, n, repl)

\* re.compile(c{n}).sub(repl, s): every n successive c become repl
RECURSIVE SubExactRuns(_, _, _, _)
SubExactRuns(s, c, n, repl) ==
    IF s = <<>> THEN <<>>
    ELSE IF RunLen(s, c) >= n
         THEN repl \o SubExactRuns(SubSeq(s, n + 1, Len(s)), c, n, repl)
         ELSE <<Head(s)>> \o SubExactRuns(Tail(s), c, n, repl)

multiple_spaces_sub_pairs(s) == SubExactRuns(s, " ", 2, <<" ">>)

\* line 480: multiple_spaces_pattern.sub(' ', content)
multiple_spaces_sub(s) == SubRuns(s, " ", 2, <<" ">>)

\* line 481: multiple_newlines_pattern.sub('\n\n', content)
multiple_newlines_sub(s) == SubRuns(s, NL, 3, <<NL, NL>>)

NormalizeWhitespace(s) == multiple_newlines_sub(multiple_spaces_sub(s))

\* lines 480-481 applied to the text at hand, then to its own result
Normalize ==
    /\ pc = "norm"
    /\ LET t == IF normalized = <<>> THEN content ELSE normalized[Len(normalized)]
       IN  normalized' = Append(normalized, NormalizeWhitespace(t))
    /\ pc' = IF normalized = <<>> THEN "norm" ELSE "norm_done"
    /\ UNCHANGED content

MaxTextLen == 6

RECURSIVE Texts(_)
Texts(n) ==
    IF n = 0 THEN {<<>>}
    ELSE LET shorter == Texts(n - 1)
         IN  shorter \cup {Append(t, c) : t \in {u \in shorter : Len(u) = n - 1},
                                          c \in {" ", NL, "x"}}

NormIdle == content = <<>> /\ normalized = <<>>

(***************************************************************************)
(* FileInfo                                                                *)
(***************************************************************************)
\* hashlib.sha256 of the bytes read: one digest per content
Sha256(bytes) == <<"sha256", bytes>>

\* line 37: f"ERROR: {str(e)}"
ErrorHash == "ERROR"

NewFileInfoHashed(path, relative_path) ==
    [path |-> path, relative_path |-> relative_path,
     file_name |-> BaseName(path), _hash |-> Sha256(<<"bytes", path>>)]

\* lines 19-24: a new record; its hash is not computed
NewFileInfo(path, relative_path) ==
    [path |-> path, relative_path |-> relative_path,
     file_name |-> BaseName(path), _hash |-> None]

always_hash(fi) == TRUE

\* line 28: the guard of the computation
needs_hashing(fi) == fi._hash = None

\* lines 26-38: the record after the call, and whether the file was opened;
\* st is the file on disk now: [content, readable]
calculate_hash(fi, st) ==
    IF needs_hashing(fi)
    THEN [fi |-> [fi EXCEPT !._hash = IF st.readable THEN Sha256(st.content) ELSE ErrorHash],
          opened |-> TRUE]
    ELSE [fi |-> fi, opened |-> FALSE]

\* lines 40-47: the mapping to_dict returns, after its call of calculate_hash
to_dict(fi, st) ==
    [path |-> fi.relative_path, file_name |-> fi.file_name,
     hash |-> calculate_hash(fi, st).fi._hash]

MaxCalls == 3

FileContents == {"v1", "v2"}

\* a caller invokes calculate_hash
CallCalculateHash ==
    /\ pc = "hash"
    /\ Len(returned) < MaxCalls
    /\ LET r == calculate_hash(file_info, file_state)
       IN  /\ file_info' = r.fi
           /\ reads' = reads + (IF r.opened THEN 1 ELSE 0)
           /\ returned' = Append(returned, [call |-> "calculate_hash", value |-> r.fi._hash,
                                            on_disk |-> file_state])
    /\ UNCHANGED <<pc, file_state>>

\* a caller invokes to_dict
CallToDict ==
    /\ pc = "hash"
    /\ Len(returned) < MaxCalls
    /\ LET r == calculate_hash(file_info, file_state)
       IN  /\ file_info' = r.fi
           /\ reads' = reads + (IF r.opened THEN 1 ELSE 0)
           /\ returned' = Append(returned, [call |-> "to_dict",
                                            value |-> to_dict(file_info, file_state).hash,
                                            on_disk |-> file_state])
    /\ UNCHANGED <<pc, file_state>>

\* between calls another process rewrites the file
ModifyFile ==
    /\ pc = "hash"
    /\ \E c \in FileContents \ {file_state.content} :
           file_state' = [file_state EXCEPT !.content = c]
    /\ UNCHANGED <<pc, file_info, reads, returned>>

\* between calls the file becomes unreadable, or readable again
ChmodFile ==
    /\ pc = "hash"
    /\ file_state' = [file_state EXCEPT !.readable = ~file_state.readable]
    /\ UNCHANGED <<pc, file_info, reads, returned>>

HashIdle ==
    /\ file_info = None
    /\ file_state = None
    /\ reads = 0
    /\ returned = <<>>

(***************************************************************************)
(* should_exclude_file on its own                                          *)
(***************************************************************************)
ShouldExcludeFile ==
    /\ pc = "policy"
    /\ verdict' = should_exclude_file(file_path)
    /\ pc' = "policy_done"
    /\ UNCHANGED file_path

PolIdle == file_path = <<>> /\ verdict = None

\* the absolute root path of the scan
RootPath == <<"/", "r">>

\* file names the policy is asked about
PolicyNames ==
    { <<"M", "a", "k", "e", "f", "i", "l", "e">>,
      <<"r", "e", "q", "u", "i", "r", "e", "m", "e", "n", "t", "s", ".", "t", "x", "t">>,
      <<".", "g", "i", "t", "i", "g", "n", "o", "r", "e">>,
      <<"a", ".", "p", "y">>,
      <<"a", ".", "t", "x", "t">>,
      <<"A", ".", "T", "X", "T">>,
      <<"a", ".", "P", "D", "F">>,
      <<"a", ".", "p", "d", "f">>,
      <<"x">> }

\* what main can append to the predefined lists (lines 512-527)
ExtraExcludedFiles ==
    { <<>>, << <<"a", ".", "t", "x", "t">> >>, << <<"M", "a", "k", "e", "f", "i", "l", "e">> >>, << <<"a", ".", "t", "x", "t">>, <<"M", "a", "k", "e", "f", "i", "l", "e">> >> }

ExtraExcludedExtensions ==
    { <<>>, << <<".", "P", "D", "F">> >>, << <<".", "p", "y">> >>, << <<".", "P", "D", "F">>, <<".", "p", "y">> >> }

ExtraForceIncludeFiles ==
    { <<>>, << <<"a", ".", "t", "x", "t">> >>, << <<".", "g", "i", "t", "i", "g", "n", "o", "r", "e">> >>, << <<"a", ".", "t", "x", "t">>, <<".", "g", "i", "t", "i", "g", "n", "o", "r", "e">> >> }

CfgIdle ==
    /\ excluded_dirs = DefaultExcludedDirs
    /\ excluded_files = DefaultExcludedFiles
    /\ excluded_extensions = DefaultExcludedExtensions
    /\ force_include_files = DefaultForceIncludeFiles

PipeIdle ==
    /\ disk = None
    /\ args = None
    /\ directories = <<>>
    /\ files = <<>>
    /\ walk = <<>>
    /\ md_lines = None
    /\ yaml_files = None
    /\ content_sections = None

(***************************************************************************)
(* ReportGenerator: the directory tree and its rendering                   *)
(*                                                                         *)
(* A dict is the sequence of its items in insertion order; an item is      *)
(* [name, is_str, value]: value is a dict for a directory and the file     *)
(* name (is_str) for a file.                                               *)
(***************************************************************************)
HasKey(tree, k) == \E j \in 1..Len(tree) : tree[j].name = k

KeyIndex(tree, k) == CHOOSE j \in 1..Len(tree) : tree[j].name = k

\* lines 203-206, 215-218: walk down parts, creating the missing dicts
RECURSIVE InsertDir(_, _)
InsertDir(tree, parts) ==
    IF parts = <<>> THEN tree
    ELSE LET part == Head(parts)
             t1 == IF HasKey(tree, part) THEN tree
                   ELSE Append(tree, [name |-> part, is_str |-> FALSE, value |-> <<>>])
             j == KeyIndex(t1, part)
         IN  [t1 EXCEPT ![j].value = InsertDir(t1[j].value, Tail(parts))]

\* line 221: current[file_name] = file_name; an existing key keeps its place
SetLeaf(tree, file_name) ==
    LET item == [name |-> file_name, is_str |-> TRUE, value |-> file_name]
    IN  IF HasKey(tree, file_name)
        THEN [tree EXCEPT ![KeyIndex(tree, file_name)] = item]
        ELSE Append(tree, item)

\* lines 210-221: one file
RECURSIVE InsertFile(_, _)
InsertFile(tree, parts) ==
    IF Len(parts) = 1 THEN SetLeaf(tree, parts[1])
    ELSE LET part == Head(parts)
             t1 == IF HasKey(tree, part) THEN tree
                   ELSE Append(tree, [name |-> part, is_str |-> FALSE, value |-> <<>>])
             j == KeyIndex(t1, part)
         IN  [t1 EXCEPT ![j].value = InsertFile(t1[j].value, Tail(parts))]

RECURSIVE InsertDirs(_, _)
InsertDirs(tree, dir_paths) ==
    IF dir_paths = <<>> THEN tree
    ELSE InsertDirs(InsertDir(tree, Split(Head(dir_paths), SEP)), Tail(dir_paths))

RECURSIVE InsertFiles(_, _)
InsertFiles(tree, file_infos) ==
    IF file_infos = <<>> THEN tree
    ELSE InsertFiles(InsertFile(tree, Split(Head(file_infos).relative_path, SEP)),
                     Tail(file_infos))

dirs_in_scan_order(dirs) == dirs

\* line 200: sorted(self.scanner.directories)
dirs_in_tree_order(dirs) == SortedStrs(dirs)

\* line 209: sorted(self.scanner.files, key=lambda x: x.relative_path)
files_in_tree_order(fs) == SortedByRelPath(fs)

\* lines 195-223
build_directory_tree(dirs, fs) ==
    InsertFiles(InsertDirs(<<>>, dirs_in_tree_order(dirs)), files_in_tree_order(fs))

\* the four prefix units of lines 239-252, each one element of a line:
\* the tee, the corner, the vertical bar and the blank
TEE == "+-- "

CORNER == "\\-- "

BAR == "|   "

BLANK == "    "

\* lines 238-241
current_prefix(prefix, is_last, is_last_item, level) ==
    IF level = 0 THEN (IF ~is_last_item THEN <<TEE>> ELSE <<CORNER>>)
    ELSE prefix \o (IF is_last THEN <<CORNER>> ELSE <<TEE>>)

\* lines 249-252
new_prefix(prefix, is_last, is_last_item, level) ==
    IF level = 0 THEN (IF ~is_last_item THEN <<BAR>> ELSE <<BLANK>>)
    ELSE prefix \o (IF is_last THEN <<BLANK>> ELSE <<BAR>>)

\* lines 225-258: the lines of the items from the i-th on
RECURSIVE md_tree_from(_, _, _, _, _)
md_tree_from(tree, i, prefix, is_last, level) ==
    IF i > Len(tree) THEN <<>>
    ELSE LET is_last_item == i = Len(tree)
             own == <<current_prefix(prefix, is_last, is_last_item, level) \o tree[i].name>>
             below == IF ~tree[i].is_str
                      THEN md_tree_from(tree[i].value, 1,
                                        new_prefix(prefix, is_last, is_last_item, level),
                                        is_last_item, level + 1)
                      ELSE <<>>
         IN  own \o below \o md_tree_from(tree, i + 1, prefix, is_last, level)

\* _generate_md_tree(tree) as generate_md_report calls it (line 275)
generate_md_tree(tree) == md_tree_from(tree, 1, <<>>, TRUE, 0)

(***************************************************************************)
(* The filesystem and os.walk                                              *)
(*                                                                         *)
(* disk.dirs and disk.files hold the paths below the root as sequences of  *)
(* names; the program sees them as the strings os.walk and os.path make.   *)
(***************************************************************************)
\* the names below the root of the directory at the absolute path root
SegsOf(root) ==
    IF root = RootPath THEN <<>> ELSE Split(RelPath(root, RootPath), SEP)

ChildNames(paths, segs) ==
    {q[Len(q)] : q \in {r \in paths : Len(r) = Len(segs) + 1
                                       /\ SubSeq(r, 1, Len(segs)) = segs}}

\* the orders in which the operating system may list a set of names
Listings(S) ==
    {l \in [1..Cardinality(S) -> S] : \A i, j \in 1..Cardinality(S) : l[i] = l[j] => i = j}

KeepAllDirs(dirs) == dirs

\* line 157: dirs[:] = [d for d in dirs if d not in self.excluded_dirs]
FilterDirs(dirs) == SelectSeq(dirs, LAMBDA d : ~should_exclude_dir(d))

\* lines 165-172: the records the loop over files appends
NewFileInfos(root, names) ==
    LET kept == SelectSeq(names, LAMBDA f : ~should_exclude_file(PathJoin(root, f)))
    IN  [i \in 1..Len(kept) |->
            NewFileInfo(PathJoin(root, kept[i]), RelPath(PathJoin(root, kept[i]), RootPath))]

(***************************************************************************)
(* main                                                                    *)
(***************************************************************************)
\* lines 512-527: list.extend when the option is given
Extend(list, option) == IF option # <<>> THEN list \o option ELSE list

\* DirectoryScanner.__init__, lines 53-131, the root path exists
Construct ==
    /\ pc = "main"
    /\ disk.root
    /\ excluded_dirs' = DefaultExcludedDirs
    /\ excluded_files' = DefaultExcludedFiles
    /\ excluded_extensions' = DefaultExcludedExtensions
    /\ force_include_files' = DefaultForceIncludeFiles
    /\ directories' = <<>>
    /\ files' = <<>>
    /\ disk' = [disk EXCEPT !.data_dir = TRUE]
    /\ pc' = "configure"
    /\ UNCHANGED <<args, walk, md_lines, yaml_files, content_sections>>

CheckRootAfterMakedirs ==
    /\ pc = "main"
    /\ ~disk.root
    /\ disk' = [disk EXCEPT !.data_dir = TRUE]
    /\ pc' = "exit_1"
    /\ UNCHANGED <<scannerCfg, args, directories, files, walk, md_lines, yaml_files,
                   content_sections>>

\* lines 113-114 and 550-552: the root path does not exist; __init__ raises
\* ValueError, main reports it and exits with status 1
ConstructFails ==
    /\ pc = "main"
    /\ ~disk.root
    /\ pc' = "exit_1"
    /\ UNCHANGED <<scannerCfg, pipeVars>>

\* main, lines 512-532
Configure ==
    /\ pc = "configure"
    /\ excluded_dirs' = Extend(excluded_dirs, args.exclude_dirs)
    /\ excluded_files' = Extend(excluded_files, args.exclude_files)
    /\ excluded_extensions' = Extend(excluded_extensions, args.exclude_ext)
    /\ force_include_files' = Extend(force_include_files, args.include_files)
    /\ pc' = "scan"
    /\ UNCHANGED pipeVars

\* scan, lines 154-155: os.walk starts at the root
ScanBegin ==
    /\ pc = "scan"
    /\ walk' = <<RootPath>>
    /\ pc' = "walk"
    /\ UNCHANGED <<scannerCfg, disk, args, directories, files, md_lines, yaml_files,
                   content_sections>>

\* scan, lines 155-172: one iteration of the loop over os.walk
ScanDir ==
    /\ pc = "walk"
    /\ walk # <<>>
    /\ LET root == Head(walk)
           segs == SegsOf(root)
       IN  \E listed_dirs \in Listings(ChildNames(disk.dirs, segs)),
              listed_files \in Listings(ChildNames(disk.files, segs)) :
             LET dirs == FilterDirs(listed_dirs)
                 rel_path == RelPath(root, RootPath)
             IN  /\ directories' = IF rel_path # <<".">> THEN Append(directories, rel_path)
                                   ELSE directories
                 /\ files' = files \o NewFileInfos(root, listed_files)
                 /\ walk' = [i \in 1..Len(dirs) |-> PathJoin(root, dirs[i])] \o Tail(walk)
    /\ UNCHANGED <<pc, scannerCfg, disk, args, md_lines, yaml_files, content_sections>>

\* scan, line 172 (FileInfo.__init__, line 23) and main, lines 550-552: getmtime
\* raises for a file that is recorded (a dangling link, a file deleted meanwhile)
ScanStatError ==
    /\ pc = "walk"
    /\ walk # <<>>
    /\ \E f \in ChildNames(disk.files, SegsOf(Head(walk))) :
           ~should_exclude_file(PathJoin(Head(walk), f))
    /\ pc' = "exit_1"
    /\ UNCHANGED <<scannerCfg, pipeVars>>

\* scan, line 174: os.walk is exhausted
ScanEnd ==
    /\ pc = "walk"
    /\ walk = <<>>
    /\ pc' = "md_report"
    /\ UNCHANGED <<scannerCfg, pipeVars>>

\* generate_md_report, lines 260-301
GenerateMdReport ==
    /\ pc = "md_report"
    /\ md_lines' = generate_md_tree(build_directory_tree(directories, files))
    /\ disk' = [disk EXCEPT !.artifacts = @ \cup {"structure.md"}]
    /\ pc' = "yaml_report"
    /\ UNCHANGED <<scannerCfg, args, directories, files, walk, yaml_files, content_sections>>

\* the bytes of the file at path
BytesOf(path) == <<"bytes", path>>

\* generate_yaml_report, lines 303-325: to_dict of every record, which hashes it;
\* each file is readable or not when it is opened
GenerateYamlReport ==
    /\ pc = "yaml_report"
    /\ \E readable \in [1..Len(files) -> BOOLEAN] :
         LET st(i) == [content |-> BytesOf(files[i].path), readable |-> readable[i]]
         IN  /\ yaml_files' = [i \in 1..Len(files) |-> to_dict(files[i], st(i))]
             /\ files' = [i \in 1..Len(files) |-> calculate_hash(files[i], st(i)).fi]
    /\ disk' = [disk EXCEPT !.artifacts = @ \cup {"structure.yaml"}]
    /\ pc' = "content_report"
    /\ UNCHANGED <<scannerCfg, args, directories, walk, md_lines, content_sections>>

SkipByExtensionOnly(fi) ==
    LET file_extension == Lower(SplitExt(fi.file_name))
    IN  \/ InList(file_extension, excluded_extensions)
        \/ file_extension \notin text_extensions

\* lines 443-448: the file gets no section
SkipInContent(fi) ==
    LET file_extension == Lower(SplitExt(fi.file_name))
        file_name == fi.file_name
    IN  \/ /\ InList(file_extension, excluded_extensions)
           /\ ~InList(file_name, force_include_files)
        \/ /\ file_extension \notin text_extensions
           /\ ~InList(file_name, force_include_files)

\* lines 453-462: the tag of the fenced block
CodeExtension(fi) ==
    LET file_extension == Lower(SplitExt(fi.file_name))
    IN  IF file_extension # <<>> THEN Tail(file_extension)
        ELSE IF Lower(fi.file_name) = <<"m", "a", "k", "e", "f", "i", "l", "e">> THEN <<"m", "a", "k", "e", "f", "i", "l", "e">>
        ELSE IF Lower(fi.file_name) = <<"d", "o", "c", "k", "e", "r", "f", "i", "l", "e">> THEN <<"d", "o", "c", "k", "e", "r", "f", "i", "l", "e">>
        ELSE <<"t", "e", "x", "t">>

\* lines 430-489: the sections written, in order
ContentSections(fs) ==
    LET kept == SelectSeq(files_in_tree_order(fs), LAMBDA fi : ~SkipInContent(fi))
    IN  [i \in 1..Len(kept) |->
            [heading |-> kept[i].relative_path, code_extension |-> CodeExtension(kept[i])]]

\* main, lines 542-548: generate_content_report unless --no-content
GenerateContentReport ==
    /\ pc = "content_report"
    /\ ~args.no_content
    /\ content_sections' = ContentSections(files)
    /\ disk' = [disk EXCEPT !.artifacts = @ \cup {"content.md"}]
    /\ pc' = "exit_0"
    /\ UNCHANGED <<scannerCfg, args, directories, files, walk, md_lines, yaml_files>>

\* main, lines 542 and 546-548 with --no-content
SkipContentReport ==
    /\ pc = "content_report"
    /\ args.no_content
    /\ pc' = "exit_0"
    /\ UNCHANGED <<scannerCfg, pipeVars>>

\* the names directories and files on disk are made of
DirNamePool == { <<"a">>, <<"a", ".", "d">>, <<"d", "i", "s", "t">> }

FileNamePool == { <<"d", "i", "s", "t">>, <<"M", ".", "o">> }

MaxDirs == 2

MaxFiles == 2

\* the sets of at most n directories in which every directory's parent exists
RECURSIVE DirSets(_)
DirSets(n) ==
    IF n = 0 THEN {{}}
    ELSE LET smaller == DirSets(n - 1)
         IN  smaller \cup
             UNION {{D \cup {Append(q, nm)} : q \in D \cup {<<>>}, nm \in DirNamePool} :
                    D \in smaller}

\* the sets of at most n files in the directories D (and the root)
RECURSIVE FileSets(_, _)
FileSets(D, n) ==
    IF n = 0 THEN {{}}
    ELSE LET smaller == FileSets(D, n - 1)
         IN  smaller \cup {F \cup {Append(q, nm)} :
                               F \in smaller, q \in D \cup {<<>>}, nm \in FileNamePool}

Disks ==
    {[root |-> FALSE, dirs |-> {}, files |-> {}, data_dir |-> o, artifacts |-> {}] :
         o \in BOOLEAN}
    \cup
    UNION {{[root |-> TRUE, dirs |-> D, files |-> F, data_dir |-> o, artifacts |-> {}] :
                F \in {G \in FileSets(D, MaxFiles) : G \cap D = {}}, o \in BOOLEAN} :
           D \in DirSets(MaxDirs)}

NoOptions ==
    [exclude_dirs |-> <<>>, exclude_files |-> <<>>, exclude_ext |-> <<>>,
     include_files |-> <<>>, no_content |-> FALSE]

\* the command lines main is run with
ArgPool ==
    { NoOptions,
      [NoOptions EXCEPT !.include_files = << <<"M", ".", "o">> >>],
      [NoOptions EXCEPT !.exclude_dirs = << <<"a", ".", "d">> >>, !.exclude_files = << <<"d", "i", "s", "t">> >>,
                        !.exclude_ext = << <<".", "p", "y">> >>, !.no_content = TRUE] }

(***************************************************************************)
(* Specifications                                                          *)
(***************************************************************************)
\* a run of main
Init ==
    /\ pc = "main"
    /\ disk \in Disks
    /\ args \in ArgPool
    /\ excluded_dirs = None
    /\ excluded_files = None
    /\ excluded_extensions = None
    /\ force_include_files = None
    /\ directories = None
    /\ files = None
    /\ walk = <<>>
    /\ md_lines = None
    /\ yaml_files = None
    /\ content_sections = None
    /\ PolIdle /\ StripIdle /\ NormIdle /\ HashIdle

MainFrame == UNCHANGED <<polVars, stripVars, normVars, hashVars>>

Next ==
    \/ Construct /\ MainFrame
    \/ ConstructFails /\ MainFrame
    \/ Configure /\ MainFrame
    \/ ScanBegin /\ MainFrame
    \/ ScanDir /\ MainFrame
    \/ ScanStatError /\ MainFrame
    \/ ScanEnd /\ MainFrame
    \/ GenerateMdReport /\ MainFrame
    \/ GenerateYamlReport /\ MainFrame
    \/ GenerateContentReport /\ MainFrame
    \/ SkipContentReport /\ MainFrame

Spec == Init /\ [][Next]_vars

\* should_exclude_file asked about one path under one configuration
InitPolicy ==
    /\ pc = "policy"
    /\ \E n \in PolicyNames, d \in {<<>>, <<"/", "a", ".", "d">>} :
           file_path = PathJoin(RootPath \o d, n)
    /\ verdict = None
    /\ excluded_dirs = DefaultExcludedDirs
    /\ \E x \in ExtraExcludedFiles : excluded_files = DefaultExcludedFiles \o x
    /\ \E x \in ExtraExcludedExtensions :
           excluded_extensions = DefaultExcludedExtensions \o x
    /\ \E x \in ExtraForceIncludeFiles :
           force_include_files = DefaultForceIncludeFiles \o x
    /\ PipeIdle /\ StripIdle /\ NormIdle /\ HashIdle

NextPolicy ==
    ShouldExcludeFile /\ UNCHANGED <<scannerCfg, pipeVars, stripVars, normVars, hashVars>>

SpecPolicy == InitPolicy /\ [][NextPolicy]_vars

\* the stripper applied to a source text, then to its own result
InitStrip ==
    /\ pc = "strip_call"
    /\ source_code \in SourceTexts
    /\ lines = <<>>
    /\ idx = 0
    /\ result_lines = <<>>
    /\ in_triple_quotes = FALSE
    /\ triple_quote_type = None
    /\ stripped = <<>>
    /\ CfgIdle /\ PipeIdle /\ PolIdle /\ NormIdle /\ HashIdle

StripFrame == UNCHANGED <<scannerCfg, pipeVars, polVars, normVars, hashVars>>

NextStrip ==
    \/ StripEnter /\ StripFrame
    \/ StripLine /\ StripFrame
    \/ StripReturn /\ StripFrame

SpecStrip == InitStrip /\ [][NextStrip]_vars

\* the whitespace normalisation applied to a text, then to its own result
InitNorm ==
    /\ pc = "norm"
    /\ content \in Texts(MaxTextLen)
    /\ normalized = <<>>
    /\ CfgIdle /\ PipeIdle /\ PolIdle /\ StripIdle /\ HashIdle

NextNorm ==
    Normalize /\ UNCHANGED <<scannerCfg, pipeVars, polVars, stripVars, hashVars>>

SpecNorm == InitNorm /\ [][NextNorm]_vars

\* one FileInfo, its callers, and the file changing under it
InitHash ==
    /\ pc = "hash"
    /\ file_info = NewFileInfo(PathJoin(RootPath, <<"a", ".", "p", "y">>), <<"a", ".", "p", "y">>)
    /\ file_state \in [content : FileContents, readable : BOOLEAN]
    /\ reads = 0
    /\ returned = <<>>
    /\ CfgIdle /\ PipeIdle /\ PolIdle /\ StripIdle /\ NormIdle

HashFrame == UNCHANGED <<scannerCfg, pipeVars, polVars, stripVars, normVars>>

NextHash ==
    \/ CallCalculateHash /\ HashFrame
    \/ CallToDict /\ HashFrame
    \/ ModifyFile /\ HashFrame
    \/ ChmodFile /\ HashFrame

SpecHash == InitHash /\ [][NextHash]_vars

(***************************************************************************)
(* Properties                                                              *)
(***************************************************************************)
\* scan has returned
ScanDone == pc \in {"md_report", "yaml_report", "content_report", "exit_0"}

\* generate_md_report has returned
MdDone == pc \in {"yaml_report", "content_report", "exit_0"}

\* generate_yaml_report has returned
YamlDone == pc \in {"content_report", "exit_0"}

\* generate_content_report has returned
ContentDone == pc = "exit_0" /\ ~args.no_content

\* the tree build_directory_tree makes of the scan's result
ScannedTree == build_directory_tree(directories, files)

Segments(path) == Split(path, SEP)

DirSegments(path) == SubSeq(Segments(path), 1, Len(Segments(path)) - 1)

RECURSIVE NodeNames(_)
NodeNames(tree) ==
    UNION {{tree[i].name} \cup (IF tree[i].is_str THEN {} ELSE NodeNames(tree[i].value)) :
           i \in 1..Len(tree)}

RECURSIVE DirNodeNames(_)
DirNodeNames(tree) ==
    UNION {IF tree[i].is_str THEN {} ELSE {tree[i].name} \cup DirNodeNames(tree[i].value) :
           i \in 1..Len(tree)}

\* one of the names is in excluded_dirs
AnyExcluded(names) == \E k \in 1..Len(names) : InList(names[k], excluded_dirs)

\* C1 as claimed: after scan no excluded directory name is a segment of an entry of
\* directories or of a file's relative_path, and no node of the tree bears it.
C1_NoExcludedSegment ==
    ScanDone =>
        /\ \A i \in 1..Len(directories) : ~AnyExcluded(Segments(directories[i]))
        /\ \A j \in 1..Len(files) : ~AnyExcluded(Segments(files[j].relative_path))
        /\ \A n \in NodeNames(ScannedTree) : ~InList(n, excluded_dirs)

\* C1 amended: after scan no excluded directory name is a segment of an entry of
\* directories or a directory segment (any segment before the basename) of a file's
\* relative_path, at any depth, and no directory node of the tree bears it.
C1_NoExcludedDirSegment ==
    ScanDone =>
        /\ \A i \in 1..Len(directories) : ~AnyExcluded(Segments(directories[i]))
        /\ \A j \in 1..Len(files) : ~AnyExcluded(DirSegments(files[j].relative_path))
        /\ \A n \in DirNodeNames(ScannedTree) : ~InList(n, excluded_dirs)

\* C1 witness: scan has returned on a disk where a file lies in an excluded directory that is
\* itself two levels below the root, in a directory that was walked
C1_Witness ==
    /\ ScanDone
    /\ \E q \in disk.files :
           Len(q) = 3 /\ InList(q[2], excluded_dirs) /\ ~InList(q[1], excluded_dirs)

\* C2: should_exclude_file returns False for every path whose basename is in
\* force_include_files, whatever excluded_files and excluded_extensions hold.
C2_ForcedNeverExcluded ==
    (pc = "policy_done" /\ InList(BaseName(file_path), force_include_files))
        => verdict = FALSE

\* C2 witness: the verdict on a forced name that is in excluded_files and has an excluded extension
C2_Witness ==
    /\ pc = "policy_done"
    /\ InList(BaseName(file_path), force_include_files)
    /\ InList(BaseName(file_path), excluded_files)
    /\ InList(Lower(SplitExt(BaseName(file_path))), excluded_extensions)

\* the relative path string of a file of the disk
RelOf(q) == Join(q, SEP)

HasRecord(q) == \E j \in 1..Len(files) : files[j].relative_path = RelOf(q)

HasYamlEntry(q) == \E j \in 1..Len(yaml_files) : yaml_files[j].path = RelOf(q)

HasSection(q) == \E j \in 1..Len(content_sections) : content_sections[j].heading = RelOf(q)

ForcedName(q) == InList(q[Len(q)], force_include_files)

BelowExcludedDir(q) == \E i \in 1..(Len(q) - 1) : InList(q[i], excluded_dirs)

\* scan being done, a forced file q has its record, its entry in the metadata
\* document once that is written, its section once the content document is written
ForcedFileReported(q) ==
    /\ HasRecord(q)
    /\ YamlDone => HasYamlEntry(q)
    /\ ContentDone => HasSection(q)

\* C3 as claimed: every file under the root whose basename is in force_include_files
\* has a record in the file list and a section in the content document.
C3_EveryForcedFile ==
    ScanDone => \A q \in disk.files : ForcedName(q) => ForcedFileReported(q)

\* C3 amended: every file under the root whose basename is in force_include_files and
\* which lies in no excluded directory has a record in the file list once scan has
\* returned, and a section in the content document when that is generated, whatever
\* its extension.
C3_EveryForcedFileWalked ==
    ScanDone =>
        \A q \in disk.files :
            (ForcedName(q) /\ ~BelowExcludedDir(q)) => ForcedFileReported(q)

\* C3 witness: the content document was written for a disk with a forced file, in a directory
\* that was walked, whose extension is excluded and is no text extension
C3_Witness ==
    /\ ContentDone
    /\ \E q \in disk.files :
           /\ ForcedName(q) /\ ~BelowExcludedDir(q) /\ Len(q) > 1
           /\ InList(Lower(SplitExt(q[Len(q)])), excluded_extensions)
           /\ Lower(SplitExt(q[Len(q)])) \notin text_extensions

\* for every node in the order it is rendered: whether each of its ancestors, from
\* the top level down, and lastly the node itself is the last of its siblings
RECURSIVE LastChains(_, _, _)
LastChains(tree, i, above) ==
    IF i > Len(tree) THEN <<>>
    ELSE LET chain == Append(above, i = Len(tree))
         IN  <<chain>>
             \o (IF tree[i].is_str THEN <<>> ELSE LastChains(tree[i].value, 1, chain))
             \o LastChains(tree, i + 1, above)

\* C4: in the rendered tree a node that is not the last of its siblings has the tee
\* and gives its descendants a vertical bar in its column; the last sibling has the
\* corner and gives its descendants a blank.
C4_GlyphsFollowSiblingPosition ==
    MdDone =>
        LET chains == LastChains(ScannedTree, 1, <<>>)
        IN  /\ Len(md_lines) = Len(chains)
            /\ \A k \in 1..Len(chains) :
                   LET level == Len(chains[k]) - 1
                   IN  /\ md_lines[k][level + 1] = IF chains[k][level + 1] THEN CORNER ELSE TEE
                       /\ \A j \in 1..level :
                              md_lines[k][j] = IF chains[k][j] THEN BLANK ELSE BAR

LexicalItems(tree) ==
    \A i, j \in 1..Len(tree) : i < j => StrLess(tree[i].name, tree[j].name)

RECURSIVE AllLexical(_)
AllLexical(tree) ==
    /\ LexicalItems(tree)
    /\ \A i \in 1..Len(tree) : tree[i].is_str \/ AllLexical(tree[i].value)

DirsThenFilesItems(tree) ==
    \A i, j \in 1..Len(tree) :
        i < j => /\ tree[i].is_str => tree[j].is_str
                 /\ tree[i].is_str = tree[j].is_str => StrLess(tree[i].name, tree[j].name)

RECURSIVE AllDirsThenFiles(_)
AllDirsThenFiles(tree) ==
    /\ DirsThenFilesItems(tree)
    /\ \A i \in 1..Len(tree) : tree[i].is_str \/ AllDirsThenFiles(tree[i].value)

RECURSIVE PreorderNames(_)
PreorderNames(tree) ==
    IF tree = <<>> THEN <<>>
    ELSE <<tree[1].name>>
         \o (IF tree[1].is_str THEN <<>> ELSE PreorderNames(tree[1].value))
         \o PreorderNames(Tail(tree))

\* the names the lines show, the prefix units taken off
RenderedNames ==
    LET chains == LastChains(ScannedTree, 1, <<>>)
    IN  [k \in 1..Len(md_lines) |-> SubSeq(md_lines[k], Len(chains[k]) + 1, Len(md_lines[k]))]

\* C5 as claimed: the children of every node are held in lexical order of their
\* names, directories and files alike.
C5_ChildrenLexical ==
    ScanDone => AllLexical(ScannedTree)

\* C5 amended: the children of every node are held, and rendered, with the
\* directories first, in lexical order of their names, and the files after them, in
\* lexical order of their names.
C5_DirsThenFilesLexical ==
    /\ ScanDone => AllDirsThenFiles(ScannedTree)
    /\ MdDone => RenderedNames = PreorderNames(ScannedTree)

\* C5 witness: the tree document was written after a scan that met two sibling directories in
\* other than lexical order, and a file beside them that sorts before them
C5_Witness ==
    /\ MdDone
    /\ Len(directories) = 2
    /\ StrLess(directories[2], directories[1])
    /\ \E j \in 1..Len(files) :
           /\ Len(Segments(files[j].relative_path)) = 1
           /\ StrLess(files[j].relative_path, directories[2])

\* C6: stripping a stripped text changes nothing.
C6_StripIdempotent == pc = "strip_done" => stripped[2] = stripped[1]

\* C7: the whitespace normalisation applied to its own result changes nothing.
C7_NormalizeIdempotent == pc = "norm_done" => normalized[2] = normalized[1]

\* C7 witness: both applications were made to a text with a run of spaces and a run of newlines
C7_Witness ==
    /\ pc = "norm_done"
    /\ Contains(content, <<" ", " ">>)
    /\ Contains(content, <<NL, NL, NL>>)

\* C8: over any calls of calculate_hash and to_dict the file is opened at most once,
\* every call returns what the first one stored, and _hash keeps that value.
C8_HashComputedOnce ==
    /\ reads <= 1
    /\ \A i \in 1..Len(returned) : returned[i].value = returned[1].value
    /\ returned # <<>> => file_info._hash = returned[1].value /\ file_info._hash # None
    /\ returned = <<>> => file_info._hash = None

\* C8 witness: calls of both kinds were made, the later with the file changed: other content,
\* and no longer readable or readable again
C8_Witness ==
    \E i, j \in 1..Len(returned) :
        /\ i < j
        /\ returned[i].call # returned[j].call
        /\ returned[i].on_disk.content # returned[j].on_disk.content
        /\ returned[i].on_disk.readable # returned[j].on_disk.readable

\* C9: when the root path does not exist the only step main takes is the failure of
\* the construction: it ends the run with an error and leaves the disk as it was,
\* without output directory or artifact that was not there.
C9_MissingRootFailsFirst ==
    [][~disk.root => (pc = "main" /\ pc' = "exit_1" /\ disk' = disk)]_vars

\* C9 witness: the run has failed on a missing root and there is still no output directory
C9_Witness == pc = "exit_1" /\ ~disk.root /\ ~disk.data_dir /\ disk.artifacts = {}

\* C10: outside a docstring a line that is a one-line docstring is dropped and the
\* stripper stays outside, whatever the line before it.
C10_OneLineDocstringOnlyDropped ==
    [][(/\ pc = "strip_loop"
        /\ idx < Len(lines)
        /\ ~in_triple_quotes
        /\ IsOneLineDocstring(Strip(lines[idx + 1])))
       => (/\ ~in_triple_quotes'
           /\ result_lines' = result_lines
           /\ idx' = idx + 1)]_vars

\* the delimiter the first line of the text starts with
FirstDelimiter == IF StartsWith(Strip(lines[1]), DQ3) THEN DQ3 ELSE SQ3

\* the first line of the text opens a triple-delimited string: the first statement
\* of the file is a docstring
OpensWithDocstring ==
    /\ lines # <<>>
    /\ StartsWith(Strip(lines[1]), DQ3) \/ StartsWith(Strip(lines[1]), SQ3)

\* the number of the line that closes the docstring the first line opens: 1 when the
\* delimiter comes again on the first line, 0 when no line closes it
DocstringEnd ==
    LET first == Strip(lines[1])
        closing == {j \in 2..Len(lines) : Contains(lines[j], FirstDelimiter)}
    IN  IF Contains(SubSeq(first, 4, Len(first)), FirstDelimiter) THEN 1
        ELSE IF closing = {} THEN 0
        ELSE CHOOSE j \in closing : \A k \in closing : j <= k

\* C11: when the first line of the text opens a docstring, on one line or over
\* several, every line of it (opening, body, closing) is dropped, and after its
\* closing line the stripper is outside a docstring, so the lines after it are
\* emitted.
C11_LeadingDocstringDropped ==
    [][(/\ pc = "strip_loop"
        /\ idx < Len(lines)
        /\ OpensWithDocstring
        /\ DocstringEnd > 0
        /\ idx < DocstringEnd)
       => (/\ result_lines' = result_lines
           /\ idx + 1 = DocstringEnd => ~in_triple_quotes')]_vars

\* should_exclude_file was asked about a name that is neither forced nor in excluded_files
ExtensionDecides ==
    /\ pc = "policy_done"
    /\ ~InList(BaseName(file_path), force_include_files)
    /\ ~InList(BaseName(file_path), excluded_files)

\* C12 as claimed: for a name neither forced nor in excluded_files, should_exclude_file
\* returns True exactly when the extension as written in the basename is in
\* excluded_extensions.
C12_ExtensionAsWritten ==
    ExtensionDecides
        => (verdict = InList(SplitExt(BaseName(file_path)), excluded_extensions))

\* C12 amended: for a name neither forced nor in excluded_files, should_exclude_file
\* returns True exactly when the extension of the basename, put in lower case, is in
\* excluded_extensions, whose entries are compared as they are written.
C12_ExtensionLowered ==
    ExtensionDecides
        => (verdict = InList(Lower(SplitExt(BaseName(file_path))), excluded_extensions))

\* C12 witness: the verdict on a name whose extension is written in upper case and is in
\* excluded_extensions only in lower case, while an entry in upper case is in the list
C12_Witness ==
    /\ ExtensionDecides
    /\ verdict = TRUE
    /\ ~InList(SplitExt(BaseName(file_path)), excluded_extensions)
    /\ InList(Lower(SplitExt(BaseName(file_path))), excluded_extensions)
    /\ InList(<<".", "P", "D", "F">>, excluded_extensions)

\* the records exist and generate_yaml_report has not run yet: scan is walking or
\* has returned, or the tree document has been written
BeforeYaml == pc \in {"walk", "md_report", "yaml_report"}

\* C13: no record's hash is computed during construction, scan or the generation of
\* the tree document: until generate_yaml_report runs every record's _hash is None,
\* and once it has run every record of files has a hash that is not None.
C13_HashFirstForcedInYaml ==
    /\ BeforeYaml => \A j \in 1..Len(files) : files[j]._hash = None
    /\ YamlDone => \A j \in 1..Len(files) : files[j]._hash # None

\* C13 witness: the metadata document was written for two records, one whose file could be
\* read and one whose file could not
C13_Witness ==
    /\ YamlDone
    /\ \E i, j \in 1..Len(files) :
           /\ files[i]._hash = ErrorHash
           /\ files[j]._hash # ErrorHash
           /\ \E k \in 1..Len(yaml_files) : yaml_files[k].path = files[j].relative_path

====
